---- MODULE Spec2Model ----
(***************************************************************************)
(* Model of the product-management sample application (webapp/): the       *)
(* shared "products" JSON model (an array of product objects), the Master, *)
(* Detail, Create and Edit controllers and the router calls they make.     *)
(*                                                                         *)
(* JavaScript objects are references: the array holds object identities    *)
(* and `heap` maps an identity to the object's fields, so that two places  *)
(* holding the same object (a form model and an array slot) see each       *)
(* other's writes.  Strings on which the code computes (ProductID, Name,   *)
(* Description, Category, search query) are sequences of one-character     *)
(* strings; message texts and route names are opaque strings.              *)
(***************************************************************************)
EXTENDS Integers, Sequences, FiniteSets

(* ------------------------------ bounds --------------------------------- *)
\* longest products array the model lets a handler build
MaxProducts == 2
\* largest numeric ProductID the model lets _generateProductId issue
MaxId == 2
\* longest seed array
MaxSeed == 1
\* most hash changes waiting for the router at once
MaxPending == 1
\* most rows in the specifications tables of the two forms together
MaxRows == 2
\* most presses of the Sort button that are counted
MaxPresses == 3
\* NavigationService: _iMaxHistorySize, which is 50 in the source
iMaxHistorySize == 4
\* most guards registered with the NavigationService
MaxGuards == 2
\* most navigateTo promises unsettled at once
MaxInFlight == 2
\* most loads the LazyLoader starts
MaxLoads == 3
\* most fragment instances the FragmentManager's loads create
MaxInstances == 3
\* most Fragment.load calls unsettled at once
MaxFragmentLoads == 2
\* most promises showConfirmationDialog returns
MaxConfirms == 2

(* ------------------------------ strings -------------------------------- *)
Digits == <<"0", "1", "2", "3", "4", "5", "6", "7", "8", "9">>

IsDigit(c) == \E d \in 1..10 : Digits[d] = c

DigitVal(c) == (CHOOSE d \in 1..10 : Digits[d] = c) - 1

\* the value "not a number"; every comparison with it is false
NaN == -1

RECURSIVE DigitPrefixVal(_, _)
\* value of the longest prefix of digits of s, acc being the value read so far
DigitPrefixVal(s, acc) ==
    IF s = <<>> \/ ~IsDigit(Head(s)) THEN acc
    ELSE DigitPrefixVal(Tail(s), acc * 10 + DigitVal(Head(s)))

\* parseInt(s, 10) on a string without sign or leading blanks
ParseInt(s) ==
    IF s = <<>> \/ ~IsDigit(Head(s)) THEN NaN ELSE DigitPrefixVal(s, 0)

RECURSIVE ToString(_)
\* Number.prototype.toString() of a non-negative integer
ToString(n) ==
    IF n < 10 THEN <<Digits[n + 1]>>
    ELSE ToString(n \div 10) \o <<Digits[(n % 10) + 1]>>

\* JavaScript truthiness of a string and of a number
TruthyStr(s) == s # <<>>
TruthyNum(n) == n # 0

\* String.prototype.includes: sub occurs in s as a contiguous substring
Contains(s, sub) ==
    \E i \in 0..(Len(s) - Len(sub)) :
        \A j \in 1..Len(sub) : s[i + j] = sub[j]

(* ------------------------------ products ------------------------------- *)
\* a product object; ProductID <<>> stands for an object that has no
\* ProductID property yet (a Create form object before its first save)
Product(id, name, desc, price, cat, specs) ==
    [ProductID |-> id, Name |-> name, Description |-> desc,
     Price |-> price, Currency |-> "USD", Category |-> cat,
     SupplierName |-> <<>>, InStock |-> TRUE, Quantity |-> 0, Rating |-> 0,
     ReleaseDate |-> "today", Specifications |-> specs]

\* the object _onCreateMatched builds
NewProduct == Product(<<>>, <<>>, <<>>, 0, <<>>, <<>>)

(* ------------------------------ formatter ------------------------------ *)
\* Number.prototype.toFixed(2) of a non-negative integer
ToFixed2(n) == ToString(n) \o <<".", "0", "0">>

\* formatter.formatPrice(price, currency); price is <<>> for null and <<n>>
\* for the number n
FormatPrice(price, currency) ==
    IF price = <<>> \/ ~TruthyNum(price[1]) THEN <<>>
    ELSE ToFixed2(price[1])

\* formatter.formatStockStatus(inStock); further arguments of a call are
\* ignored
FormatStockStatus(inStock) ==
    IF inStock THEN "In Stock" ELSE "Out of Stock"

\* formatter.formatStockStatusState(inStock)
FormatStockStatusState(inStock) ==
    IF inStock THEN "Success" ELSE "Error"

\* a formatter call with its arguments and its result: sText of
\* formatPrice, sStatus of the two stock formatters
FormatCall(sFn, price, inStock, quantity, sText, sStatus) ==
    [fn |-> sFn, price |-> price, inStock |-> inStock, quantity |-> quantity,
     sText |-> sText, sStatus |-> sStatus]

NoFormatCall == FormatCall("none", <<>>, FALSE, 0, <<>>, "")

(* ------------------------------- state --------------------------------- *)
VARIABLES
    heap,          \* object identity -> fields of the product object
    aProducts,     \* data of the component's "products" model: object ids
    sHash,         \* the current hash: [route, productId]
    aPending,      \* hashes the router has still to match (async routing)
    sDisplayed,    \* the route whose target views are on display
    createModel,   \* Create view: object of its "products" model (0: none)
    createSpecs,   \* Create view: rows of its "specs" model
    editModel,     \* Edit view: object of its "products" model (0: none)
    editSpecs,     \* Edit view: rows of its "specs" model
    productIndex,  \* Edit controller: this.productIndex (-1: undefined)
    detailModel,   \* Detail view: object of its "products" model (0: none)
    aFilters,      \* filters applied to the list binding of productList
    aDialogs,      \* open confirmation dialogs: the sProductId each captured
    aToasts,       \* MessageToast.show texts of the last handler
    aMsgBoxes,     \* MessageBox.error texts of the last handler
    iLastIssued,   \* number of the ProductID the last Create-save issued (0: none)
    oFormatted,    \* the last call of a formatter function and its result
    bDescendingSort, \* Master controller: this._bDescendingSort
    aSorters,      \* sorters applied to the list binding of productList
    iSortPresses,  \* number of Sort presses since Master.onInit
    aNavigationHistory, \* NavigationService: this._aNavigationHistory
    mNavigationGuards,  \* NavigationService: this._mNavigationGuards
    aNavigations,  \* navigateTo promises whose guard check is not settled
    aNavSettled,   \* navigateTo promises the last step settled, and how
    mLoadedModules,    \* LazyLoader: this._mLoadedModules
    mLoadingPromises,  \* LazyLoader: this._mLoadingPromises (promise ids)
    aLoadPromises, \* the promises loadModule created, one per sap.ui.require
    oLoadReturned, \* what the last loadModule call returned
    mFragments,    \* FragmentManager: this._mFragments (instance ids)
    aFragments,    \* the fragment instances Fragment.load has created
    aFragmentLoads,    \* Fragment.load calls that have not settled
    fnConfirmResolve,  \* FragmentManager: this._fnConfirmResolve, as the
                       \* promise it resolves (0: null)
    aConfirmPromises   \* the promises showConfirmationDialog has returned

vars == <<heap, aProducts, sHash, aPending, sDisplayed, createModel, createSpecs, editModel,
          editSpecs, productIndex, detailModel, aFilters,
          aDialogs, aToasts, aMsgBoxes, iLastIssued, oFormatted,
          bDescendingSort, aSorters, iSortPresses,
          aNavigationHistory, mNavigationGuards, aNavigations, aNavSettled,
          mLoadedModules, mLoadingPromises, aLoadPromises, oLoadReturned,
          mFragments, aFragments, aFragmentLoads, fnConfirmResolve,
          aConfirmPromises>>

\* the variables of the Master controller's sorting and of the
\* NavigationService
master == <<bDescendingSort, aSorters, iSortPresses>>
navigation == <<aNavigationHistory, mNavigationGuards, aNavigations,
                aNavSettled>>

\* the variables of the LazyLoader
loader == <<mLoadedModules, mLoadingPromises, aLoadPromises, oLoadReturned>>

\* the variables of the FragmentManager
fragments == <<mFragments, aFragments, aFragmentLoads, fnConfirmResolve,
               aConfirmPromises>>

\* what the handlers of the product forms, the Detail view and the router
\* leave alone
services == <<master, navigation, loader, fragments>>

\* Master.onInit
MasterConstructed ==
    /\ bDescendingSort = FALSE
    /\ aSorters = <<>>
    /\ iSortPresses = 0

\* the constructor of the NavigationService; a Map is a function from its
\* keys
NavigationConstructed ==
    /\ aNavigationHistory = <<>>
    /\ mNavigationGuards = <<>>
    /\ aNavigations = <<>>
    /\ aNavSettled = <<>>

\* what a call returns that returns nothing
NoPromise == [promise |-> 0, state |-> "none", value |-> ""]

\* the constructor of the LazyLoader
LoaderConstructed ==
    /\ mLoadedModules = <<>>
    /\ mLoadingPromises = <<>>
    /\ aLoadPromises = <<>>
    /\ oLoadReturned = NoPromise

\* the constructor of the FragmentManager; _fnConfirmResolve is not yet
\* set
FragmentsConstructed ==
    /\ mFragments = <<>>
    /\ aFragments = <<>>
    /\ aFragmentLoads = <<>>
    /\ fnConfirmResolve = 0
    /\ aConfirmPromises = <<>>

\* the controllers and services as their constructors leave them
Constructed ==
    /\ MasterConstructed
    /\ NavigationConstructed
    /\ LoaderConstructed
    /\ FragmentsConstructed

\* The state a handler starts from: the messages of the previous handler
\* are gone.  Besides the program state it carries what the handler asks
\* for while it runs and which does not outlive it: aNavCalls (its navTo and
\* history.go calls), sPrevHash (what it read from History.getPreviousHash),
\* bThrown (it ended in an uncaught exception) and detailPath (the index i of
\* the binding context "/i" it sets on the Detail view, -1 if it sets none;
\* no controller reads the binding context)
St == [heap |-> heap, aProducts |-> aProducts, sHash |-> sHash,
       aPending |-> aPending, sDisplayed |-> sDisplayed,
       createModel |-> createModel,
       createSpecs |-> createSpecs, editModel |-> editModel,
       editSpecs |-> editSpecs, productIndex |-> productIndex,
       detailModel |-> detailModel, detailPath |-> -1,
       aFilters |-> aFilters, aDialogs |-> aDialogs,
       aToasts |-> <<>>, aMsgBoxes |-> <<>>, iLastIssued |-> iLastIssued,
       aNavCalls |-> <<>>,
       sPrevHash |-> "unread", bThrown |-> FALSE]

\* objects still referenced from the array or from a view model
Live(s) == ({s.aProducts[k] : k \in 1..Len(s.aProducts)}
            \cup {s.createModel, s.editModel, s.detailModel}) \ {0}

\* every reference of the program, in a fixed order
Refs(s) == s.aProducts \o <<s.createModel, s.editModel, s.detailModel>>

\* the position of an object's first reference
FirstRef(aRefs, o) ==
    CHOOSE k \in 1..Len(aRefs) :
        aRefs[k] = o /\ \A j \in 1..(k - 1) : aRefs[j] # o

\* An object's identity is observable only through ===, so identities are
\* kept canonical: a live object is renamed to its rank among the first
\* references; 0 (no object) stays 0
Canonical(s) ==
    [o \in Live(s) \cup {0} |->
        IF o = 0 THEN 0
        ELSE Cardinality({p \in Live(s) :
                 FirstRef(Refs(s), p) <= FirstRef(Refs(s), o)})]

\* unreferenced objects are unobservable and are dropped, the others renamed
Collect(s) ==
    LET r == CHOOSE f \in {Canonical(s)} : TRUE IN
    [s EXCEPT !.heap = [n \in 1..Cardinality(Live(s)) |->
                           s.heap[CHOOSE o \in Live(s) : r[o] = n]],
              !.aProducts = [k \in 1..Len(s.aProducts) |-> r[s.aProducts[k]]],
              !.createModel = r[s.createModel],
              !.editModel = r[s.editModel],
              !.detailModel = r[s.detailModel]]

\* the state a handler leaves behind
Commit(s) ==
    \E u \in {s} : \E t \in {Collect(u)} :
    /\ Len(t.aProducts) <= MaxProducts
    /\ Len(t.aPending) <= MaxPending
    /\ Len(t.createSpecs) + Len(t.editSpecs) <= MaxRows
    /\ heap' = t.heap
    /\ aProducts' = t.aProducts
    /\ sHash' = t.sHash
    /\ aPending' = t.aPending
    /\ sDisplayed' = t.sDisplayed
    /\ createModel' = t.createModel
    /\ createSpecs' = t.createSpecs
    /\ editModel' = t.editModel
    /\ editSpecs' = t.editSpecs
    /\ productIndex' = t.productIndex
    /\ detailModel' = t.detailModel
    /\ aFilters' = t.aFilters
    /\ aDialogs' = t.aDialogs
    /\ aToasts' = t.aToasts
    /\ aMsgBoxes' = t.aMsgBoxes
    /\ iLastIssued' = t.iLastIssued
    /\ oFormatted' = oFormatted
    /\ UNCHANGED services

\* identity given to a newly created object
NewObj(s) ==
    CHOOSE o \in 1..(Cardinality(DOMAIN s.heap) + 1) :
        o \notin DOMAIN s.heap /\ \A p \in 1..(o - 1) : p \in DOMAIN s.heap

\* MessageToast.show / MessageBox.error
Toast(s, sText) == [s EXCEPT !.aToasts = Append(@, sText)]
ErrorBox(s, sText) == [s EXCEPT !.aMsgBoxes = Append(@, sText)]


\* aProducts[i] of a 0-based index i; 0 is a hole (undefined), which an
\* assignment beyond the end of the array leaves behind
At(s, i) == s.aProducts[i + 1]

RECURSIVE ScanFrom(_, _, _)
\* "for (var i = 0; i < aProducts.length; i++) if (aProducts[i].ProductID
\* === sProductId) {...; break;}" from index i on: the index of the first
\* hit, -1 when the loop ends without one, -2 when aProducts[i] is undefined
\* and reading its ProductID throws
ScanFrom(s, sProductId, i) ==
    IF i >= Len(s.aProducts) THEN -1
    ELSE IF At(s, i) = 0 THEN -2
    ELSE IF s.heap[At(s, i)].ProductID = sProductId THEN i
    ELSE ScanFrom(s, sProductId, i + 1)

FindIndex(s, sProductId) == ScanFrom(s, sProductId, 0)

\* an uncaught exception ends the handler
Throw(s) == [s EXCEPT !.bThrown = TRUE]

(* ------------------------------- router -------------------------------- *)
Hash(sRoute, sProductId) == [route |-> sRoute, productId |-> sProductId]

NavCall(sFn, sRoute, sProductId, bReplace) ==
    [fn |-> sFn, route |-> sRoute, productId |-> sProductId,
     bReplace |-> bReplace]

\* the views a route's targets display (manifest routes)
Targets(sRoute) ==
    CASE sRoute = "master" -> {"master", "detail"}
      [] sRoute = "detail" -> {"master", "detail"}
      [] sRoute = "create" -> {"create"}
      [] sRoute = "edit" -> {"edit"}
      [] OTHER -> {}

\* a hash change: the router (manifest: "async": true) takes up the hash at
\* once, displays the matching route's targets and fires its patternMatched
\* event in a later task; a hash equal to the current one changes nothing
SetHash(s, sRoute, sProductId) ==
    IF s.sHash = Hash(sRoute, sProductId) THEN s
    ELSE [s EXCEPT !.sHash = Hash(sRoute, sProductId),
                   !.aPending = Append(@, Hash(sRoute, sProductId))]

\* oRouter.navTo(sRoute, {productId: sProductId}, bReplace); a missing
\* mandatory productId makes the router throw
NavTo(s, sRoute, sProductId, bReplace) ==
    LET t == [s EXCEPT !.aNavCalls =
                  Append(@, NavCall("navTo", sRoute, sProductId, bReplace))]
    IN IF sRoute \in {"detail", "edit"} /\ sProductId = <<>> THEN Throw(t)
       ELSE SetHash(t, sRoute, sProductId)

\* var sPreviousHash = History.getInstance().getPreviousHash(); bPrev says
\* whether the History has one
GetPreviousHash(s, bPrev) ==
    [s EXCEPT !.sPrevHash = IF bPrev THEN "defined" ELSE "undefined"]

\* window.history.go(-1): the traversal happens later, as a hash change
HistoryBack(s) ==
    [s EXCEPT !.aNavCalls = Append(@, NavCall("history.go", "", <<>>, FALSE))]

(* --------------------------- specifications --------------------------- *)
\* A Specifications object is its properties in Object.keys order: a
\* sequence of [key, value] with distinct keys (keys are not integer-like,
\* so Object.keys order is insertion order).  A table row is [key, value].
Row(sKey, sValue) == [key |-> sKey, value |-> sValue]

\* an assignment that leaves a property that is there as it is
SetPropertyKeepFirst(oSpecifications, spec) ==
    IF \E k \in 1..Len(oSpecifications) : oSpecifications[k].key = spec.key
    THEN oSpecifications
    ELSE Append(oSpecifications, Row(spec.key, spec.value))

\* oSpecifications[spec.key] = spec.value
SetProperty(oSpecifications, spec) ==
    IF \E k \in 1..Len(oSpecifications) : oSpecifications[k].key = spec.key
    THEN [k \in 1..Len(oSpecifications) |->
             IF oSpecifications[k].key = spec.key
             THEN Row(spec.key, spec.value) ELSE oSpecifications[k]]
    ELSE Append(oSpecifications, Row(spec.key, spec.value))

RECURSIVE RowsToObject(_, _)
\* aSpecs.forEach(spec => if (spec.key && spec.value) o[spec.key] = spec.value)
RowsToObject(aSpecs, oSpecifications) ==
    IF aSpecs = <<>> THEN oSpecifications
    ELSE RowsToObject(Tail(aSpecs),
             IF TruthyStr(Head(aSpecs).key) /\ TruthyStr(Head(aSpecs).value)
             THEN SetProperty(oSpecifications, Head(aSpecs))
             ELSE oSpecifications)

\* the conversion to rows losing the values
ObjectToRowsKeysOnly(oSpecifications) ==
    [k \in 1..Len(oSpecifications) |-> Row(oSpecifications[k].key, <<>>)]

\* Object.keys(o).forEach(key => aSpecs.push({key: key, value: o[key]}))
ObjectToRows(oSpecifications) ==
    [k \in 1..Len(oSpecifications) |->
        Row(oSpecifications[k].key, oSpecifications[k].value)]

(* -------------------------- Detail controller -------------------------- *)
\* Detail.onNavBack; bPrev: History.getPreviousHash() !== undefined
DetailOnNavBack(s, bPrev) ==
    LET t == GetPreviousHash(s, bPrev) IN
    IF t.sPrevHash # "undefined" THEN HistoryBack(t) ELSE NavTo(t, "master", <<>>, TRUE)

\* Detail._onProductMatched
OnProductMatched(s, sProductId, bPrev) ==
    LET i == FindIndex(s, sProductId) IN
    IF i = -2 THEN Throw(s)
    ELSE IF i >= 0
    THEN [s EXCEPT !.detailModel = At(s, i), !.detailPath = i]
    ELSE DetailOnNavBack(Toast(s, "Product not found"), bPrev)

\* getView().getModel("products").getProperty("/ProductID") of a view; a
\* view without a model of its own sees the array, which has no ProductID
ModelProductId(s, oModel) ==
    IF oModel = 0 THEN <<>> ELSE s.heap[oModel].ProductID

\* Detail.onDeletePress: MessageBox.confirm opens, capturing sProductId
OnDeletePress(s) ==
    [s EXCEPT !.aDialogs = Append(@, ModelProductId(s, s.detailModel))]

\* aProducts.splice(i, 1)
Splice(aArray, i) ==
    [k \in 1..(Len(aArray) - 1) |-> IF k <= i THEN aArray[k] ELSE aArray[k + 1]]

\* the onClose callback without the test of the action
OnCloseAnyAction(s, d, oAction) ==
    LET sProductId == s.aDialogs[d]
        t == [s EXCEPT !.aDialogs = Splice(@, d - 1)]
        i == FindIndex(t, sProductId)
    IN IF i = -2 THEN Throw(t)
       ELSE NavTo(Toast([t EXCEPT !.aProducts =
                                IF i >= 0 THEN Splice(@, i) ELSE @],
                        "Product deleted successfully"),
                  "master", <<>>, FALSE)

\* the onClose callback of the d-th open dialog
OnClose(s, d, oAction) ==
    LET sProductId == s.aDialogs[d]
        t == [s EXCEPT !.aDialogs = Splice(@, d - 1)]
        i == FindIndex(t, sProductId)
    IN IF oAction # "OK" THEN t
       ELSE IF i = -2 THEN Throw(t)
       ELSE NavTo(Toast([t EXCEPT !.aProducts =
                                IF i >= 0 THEN Splice(@, i) ELSE @],
                            "Product deleted successfully"),
                  "master", <<>>, FALSE)

(* --------------------------- Edit controller --------------------------- *)
\* Edit.onNavBack
EditOnNavBack(s, bPrev) ==
    LET t == GetPreviousHash(s, bPrev) IN
    IF t.sPrevHash # "undefined" THEN HistoryBack(t)
    ELSE NavTo(t, "detail", ModelProductId(t, t.editModel), TRUE)

\* onAddSpecification, onDeleteSpecification of the row with index iIndex
\* and the two-way binding of a row's inputs, on the rows of a "specs" model
AddSpecification(aSpecs) == Append(aSpecs, Row(<<>>, <<>>))

DeleteSpecification(aSpecs, iIndex) ==
    IF iIndex # -1
    THEN [k \in 1..(Len(aSpecs) - 1) |->
             IF k <= iIndex THEN aSpecs[k] ELSE aSpecs[k + 1]]
    ELSE aSpecs

TypeSpecification(aSpecs, iIndex, sKey, sValue) ==
    [aSpecs EXCEPT ![iIndex + 1] = Row(sKey, sValue)]

\* Edit._onEditMatched handing the selected product itself to the form
OnEditMatchedNoCopy(s, sProductId, bPrev) ==
    LET i == FindIndex(s, sProductId)
    IN IF i = -2 THEN Throw(s)
       ELSE IF i >= 0
       THEN [s EXCEPT !.productIndex = i,
                      !.editModel = At(s, i),
                      !.editSpecs = ObjectToRows(s.heap[At(s, i)].Specifications)]
       ELSE EditOnNavBack(Toast(s, "Product not found"), bPrev)

\* Edit._onEditMatched with _initSpecificationsTable
OnEditMatched(s, sProductId, bPrev) ==
    LET i == FindIndex(s, sProductId)
        o == NewObj(s)
    IN IF i = -2 THEN Throw(s)
       ELSE IF i >= 0
       THEN [s EXCEPT !.productIndex = i,
                      !.heap = [x \in DOMAIN s.heap \cup {o} |->
                                   IF x = o THEN s.heap[At(s, i)]
                                   ELSE s.heap[x]],
                      !.editModel = o,
                      !.editSpecs = ObjectToRows(s.heap[At(s, i)].Specifications)]
       ELSE EditOnNavBack(Toast(s, "Product not found"), bPrev)

\* aProducts[i] = oProduct; an index beyond the end leaves holes
SetAt(aArray, i, oProduct) ==
    [k \in 1..(IF i < Len(aArray) THEN Len(aArray) ELSE i + 1) |->
        IF k = i + 1 THEN oProduct
        ELSE IF k <= Len(aArray) THEN aArray[k] ELSE 0]

\* the validation with the test of the Price left out
MissingName(s, oModel) ==
    \/ oModel = 0
    \/ ~TruthyStr(s.heap[oModel].Name)

\* "!oProduct.Name || !oProduct.Price" of a form's model object
MissingRequired(s, oModel) ==
    \/ oModel = 0
    \/ ~TruthyStr(s.heap[oModel].Name)
    \/ ~TruthyNum(s.heap[oModel].Price)

\* Edit.onSavePress
EditOnSavePress(s) ==
    IF MissingRequired(s, s.editModel)
    THEN ErrorBox(s, "Please fill in all required fields")
    ELSE LET oProduct == s.editModel
             t == [s EXCEPT !.heap[oProduct].Specifications =
                                RowsToObject(s.editSpecs, <<>>)]
         IN IF s.productIndex # -1
            THEN NavTo(Toast([t EXCEPT !.aProducts =
                                     SetAt(@, s.productIndex, oProduct)],
                                 "Product updated successfully"),
                       "detail", t.heap[oProduct].ProductID, FALSE)
            ELSE ErrorBox(t, "Error updating product")

\* Detail.onEditPress
OnEditPress(s) ==
    NavTo(s, "edit", ModelProductId(s, s.detailModel), FALSE)

(* -------------------------- Create controller -------------------------- *)
\* Create._onCreateMatched without _initSpecificationsTable
OnCreateMatchedKeepRows(s) ==
    LET o == NewObj(s) IN
    [s EXCEPT !.heap = [x \in DOMAIN s.heap \cup {o} |->
                           IF x = o THEN NewProduct ELSE s.heap[x]],
              !.createModel = o]

\* Create._onCreateMatched with _initSpecificationsTable
OnCreateMatched(s) ==
    LET o == NewObj(s) IN
    [s EXCEPT !.heap = [x \in DOMAIN s.heap \cup {o} |->
                           IF x = o THEN NewProduct ELSE s.heap[x]],
              !.createModel = o,
              !.createSpecs = ObjectToRows(NewProduct.Specifications)]

RECURSIVE MaxIdFrom(_, _, _)
\* aProducts.forEach(product => { iId = parseInt(product.ProductID, 10);
\* if (iId > iMaxId) iMaxId = iId; }) from 0-based index i on; forEach
\* skips holes and a comparison with NaN is false
MaxIdFrom(s, i, iMaxId) ==
    IF i >= Len(s.aProducts) THEN iMaxId
    ELSE IF At(s, i) = 0 THEN MaxIdFrom(s, i + 1, iMaxId)
    ELSE LET iId == ParseInt(s.heap[At(s, i)].ProductID) IN
         MaxIdFrom(s, i + 1,
                   IF iId # NaN /\ iId > iMaxId THEN iId ELSE iMaxId)

\* the number whose string Create._generateProductId returns
NextId(s) == MaxIdFrom(s, 0, 0) + 1

\* Create._generateProductId
GenerateProductId(s) == ToString(NextId(s))

\* Create.onSavePress
CreateOnSavePress(s) ==
    IF MissingRequired(s, s.createModel)
    THEN ErrorBox(s, "Please fill in all required fields")
    ELSE LET oProduct == s.createModel
             t == [s EXCEPT !.heap[oProduct].Specifications =
                                RowsToObject(s.createSpecs, <<>>)]
             u == [t EXCEPT !.heap[oProduct].ProductID = GenerateProductId(t),
                            !.iLastIssued = NextId(t)]
         IN NavTo(Toast([u EXCEPT !.aProducts = Append(@, oProduct)],
                        "Product created successfully"),
                  "master", <<>>, FALSE)

\* Create.onNavBack
CreateOnNavBack(s, bPrev) ==
    LET t == GetPreviousHash(s, bPrev) IN
    IF t.sPrevHash # "undefined" THEN HistoryBack(t) ELSE NavTo(t, "master", <<>>, TRUE)

(* -------------------------- Master controller -------------------------- *)
\* new Filter(sPath, FilterOperator.Contains, sValue)
Filter(sPath, sValue) == [path |-> sPath, op |-> "Contains", value |-> sValue]

\* new Filter({filters: aFilters, and: bAnd})
MultiFilter(aLeafFilters, bAnd) == [filters |-> aLeafFilters, and |-> bAnd]

\* the filter list with the three filters AND-combined
SearchFiltersAnd(sQuery) ==
    IF TruthyStr(sQuery)
    THEN << MultiFilter(<< Filter("Name", sQuery),
                           Filter("Description", sQuery),
                           Filter("Category", sQuery) >>, TRUE) >>
    ELSE << >>

\* the filter list Master.onSearch hands to oBinding.filter
SearchFilters(sQuery) ==
    IF TruthyStr(sQuery)
    THEN << MultiFilter(<< Filter("Name", sQuery),
                           Filter("Description", sQuery),
                           Filter("Category", sQuery) >>, FALSE) >>
    ELSE << >>

\* Master.onSearch; a parameter the event does not carry is <<>>
OnSearch(s, sQueryParam, sNewValueParam) ==
    LET sQuery == IF TruthyStr(sQueryParam) THEN sQueryParam
                  ELSE sNewValueParam
    IN [s EXCEPT !.aFilters = SearchFilters(sQuery)]

\* does the record pass a leaf filter / a multi-filter of the list binding
PassesLeaf(oRecord, oFilter) == Contains(oRecord[oFilter.path], oFilter.value)

Passes(oRecord, oFilter) ==
    IF oFilter.and
    THEN \A k \in 1..Len(oFilter.filters) : PassesLeaf(oRecord, oFilter.filters[k])
    ELSE \E k \in 1..Len(oFilter.filters) : PassesLeaf(oRecord, oFilter.filters[k])

\* 0-based array indices the list binding of productList shows: every index
\* without filters, else those whose record passes every filter
Listed(s) ==
    {i \in 0..(Len(s.aProducts) - 1) :
        \A f \in 1..Len(s.aFilters) :
            At(s, i) # 0 /\ Passes(s.heap[At(s, i)], s.aFilters[f])}

\* onSelectionChange taking the first item of the list for the selected one
OnSelectionChangeFirst(s, i) ==
    NavTo(s, "detail", ModelProductId(s, At(s, 0)), FALSE)

\* Master.onSelectionChange on the list item bound to index i
OnSelectionChange(s, i) ==
    NavTo(s, "detail", ModelProductId(s, At(s, i)), FALSE)

\* Master.onAddPress
OnAddPress(s) == NavTo(s, "create", <<>>, FALSE)

\* new Sorter(sPath, bDescending)
Sorter(sPath, bDescending) == [path |-> sPath, descending |-> bDescending]

\* the Master controller's sort flag, the sorters of the list binding and
\* the toasts a handler of the controller shows
Mst == [bDescendingSort |-> bDescendingSort, aSorters |-> aSorters,
        aToasts |-> <<>>]

\* onSort without the toggle of the direction
OnSortNoToggle(m) ==
    [m EXCEPT !.aSorters = <<Sorter("Name", m.bDescendingSort)>>,
              !.aToasts = Append(@, IF m.bDescendingSort THEN "Sorted Z to A"
                                    ELSE "Sorted A to Z")]

\* Master.onSort
OnSort(m) ==
    LET b == ~m.bDescendingSort IN
    [m EXCEPT !.bDescendingSort = b,
              !.aSorters = <<Sorter("Name", b)>>,
              !.aToasts = Append(@, IF b THEN "Sorted Z to A"
                                    ELSE "Sorted A to Z")]

\* the letters of the texts, in their order
Alphabet == <<"a", "b">>
CharRank(c) == CHOOSE k \in 1..Len(Alphabet) : Alphabet[k] = c

\* the Sorter's comparison of two texts: -1, 0 or 1
RECURSIVE CompareText(_, _)
CompareText(a, b) ==
    IF a = <<>> /\ b = <<>> THEN 0
    ELSE IF a = <<>> THEN -1
    ELSE IF b = <<>> THEN 1
    ELSE IF CharRank(Head(a)) < CharRank(Head(b)) THEN -1
    ELSE IF CharRank(Head(a)) > CharRank(Head(b)) THEN 1
    ELSE CompareText(Tail(a), Tail(b))

\* the comparison of the records at indices i and j under a sorter
CompareBy(s, oSorter, i, j) ==
    LET c == CompareText(s.heap[At(s, i)][oSorter.path],
                         s.heap[At(s, j)][oSorter.path])
    IN IF oSorter.descending THEN -c ELSE c

\* index i put into a sorted list of indices, behind its equals
RECURSIVE InsertSorted(_, _, _, _)
InsertSorted(s, oSorter, aItems, i) ==
    IF aItems = <<>> THEN <<i>>
    ELSE IF CompareBy(s, oSorter, Head(aItems), i) <= 0
    THEN <<Head(aItems)>> \o InsertSorted(s, oSorter, Tail(aItems), i)
    ELSE <<i>> \o aItems

\* the items of productList from the top: the listed array indices up to
\* index n - 1, in array order without a sorter, else sorted
RECURSIVE ListItems(_, _, _)
ListItems(s, aSort, n) ==
    IF n = 0 THEN <<>>
    ELSE IF (n - 1) \notin Listed(s) THEN ListItems(s, aSort, n - 1)
    ELSE IF aSort = <<>> THEN Append(ListItems(s, aSort, n - 1), n - 1)
    ELSE InsertSorted(s, aSort[1], ListItems(s, aSort, n - 1), n - 1)

(* ------------------------------- inputs -------------------------------- *)
\* ProductIDs of the seed data (products.json): distinct numeric strings
SeedIds == {<<"1">>}

\* the seed record with a given ProductID
SeedProduct(sId) ==
    Product(sId, <<"a">>, <<>>, 5, <<>>, <<>>)

\* the seed arrays: sequences of distinct seed ids
Seeds == {q \in UNION {[1..n -> SeedIds] : n \in 0..MaxSeed} :
             \A j, k \in 1..Len(q) : j # k => q[j] # q[k]}

\* what the Name and Price inputs of a form write into its model: an empty
\* and a non-empty Name, a falsy and a truthy Price
Names == {<<>>, <<"a">>}
Prices == {0, 5}

\* two-way binding: an input writes its value into the form's model object
TypeName(s, oModel, sName) == [s EXCEPT !.heap[oModel].Name = sName]
TypePrice(s, oModel, fPrice) == [s EXCEPT !.heap[oModel].Price = fPrice]

\* productId arguments a hash can carry: those of the array and one more
RouteIds(s) ==
    {s.heap[s.aProducts[k]].ProductID :
        k \in {j \in 1..Len(s.aProducts) : s.aProducts[j] # 0}} \cup {<<"4">>}

\* what the key and value inputs of a specification row leave in it: two
\* values for one key, a second key, an empty key and an empty value
SpecRowInputs ==
    {Row(<<"k">>, <<"v">>), Row(<<"k">>, <<"w">>), Row(<<"j">>, <<"v">>),
     Row(<<>>, <<"v">>), Row(<<"k">>, <<>>)}

\* search strings
Queries == {<<>>, <<"a">>, <<"b">>, <<"b", "a">>}

\* buttons that close a MessageBox.confirm
Actions == {"OK", "CANCEL"}

(* -------------------------------- Init --------------------------------- *)
Init ==
    \E q \in Seeds :
        /\ heap = [o \in 1..Len(q) |-> SeedProduct(q[o])]
        /\ aProducts = [o \in 1..Len(q) |-> o]
        /\ sHash = Hash("none", <<>>)
        /\ aPending = <<>>
        /\ sDisplayed = "none"
        /\ createModel = 0
        /\ createSpecs = <<>>
        /\ editModel = 0
        /\ editSpecs = <<>>
        /\ productIndex = -1
        /\ detailModel = 0
        /\ aFilters = <<>>
        /\ aDialogs = <<>>
        /\ aToasts = <<>>
        /\ aMsgBoxes = <<>>
        /\ iLastIssued = 0
        /\ oFormatted = NoFormatCall
        /\ Constructed

(* ------------------------------- actions ------------------------------- *)
\* a handler the user can trigger: its view is on display and no modal
\* confirmation dialog covers it
CanPress(sView) == sView \in Targets(sDisplayed) /\ aDialogs = <<>>

\* the hash changes from outside the controllers: application start, a
\* typed or followed URL, the browser's back and forward (also the traversal
\* a window.history.go(-1) asked for)
HashChanged ==
    \E sRoute \in {"master", "detail", "create", "edit"} :
    \E sProductId \in IF sRoute \in {"detail", "edit"}
                      THEN RouteIds(St) \ {<<>>} ELSE {<<>>} :
        /\ aDialogs = <<>>
        /\ sHash # Hash(sRoute, sProductId)
        /\ Commit(SetHash(St, sRoute, sProductId))

\* the router matches the next pending hash: it displays the route's
\* targets, then fires the route's patternMatched event
RouteMatched ==
    /\ aPending # <<>>
    /\ \E bPrev \in BOOLEAN :
       LET oHash == Head(aPending)
           t == [St EXCEPT !.aPending = Tail(@),
                           !.sDisplayed = oHash.route]
       IN CASE oHash.route = "master" ->
                 bPrev /\ Commit(t)
            [] oHash.route = "detail" ->
                 Commit(OnProductMatched(t, oHash.productId, bPrev))
            [] oHash.route = "create" ->
                 bPrev /\ Commit(OnCreateMatched(t))
            [] oHash.route = "edit" ->
                 Commit(OnEditMatched(t, oHash.productId, bPrev))

MasterSearch ==
    /\ CanPress("master")
    /\ \E sQueryParam, sNewValueParam \in Queries :
           /\ sQueryParam = <<>> \/ sNewValueParam = <<>>
           /\ Commit(OnSearch(St, sQueryParam, sNewValueParam))

MasterSelectionChange ==
    /\ CanPress("master")
    /\ \E i \in Listed(St) :
           /\ At(St, i) # 0
           /\ Commit(OnSelectionChange(St, i))

MasterAddPress ==
    /\ CanPress("master")
    /\ Commit(OnAddPress(St))

DetailNavBack ==
    /\ CanPress("detail")
    /\ \E bPrev \in BOOLEAN :
           Commit(DetailOnNavBack(St, bPrev))

DetailEditPress ==
    /\ CanPress("detail")
    /\ Commit(OnEditPress(St))

DetailDeletePress ==
    /\ CanPress("detail")
    /\ Commit(OnDeletePress(St))

DetailDeleteClose ==
    \E d \in 1..Len(aDialogs), oAction \in Actions :
        Commit(OnClose(St, d, oAction))

\* two-way binding of the Create form's inputs
CreateType ==
    /\ CanPress("create")
    /\ \E sName \in {<<"a">>}, fPrice \in {5} :
           Commit(TypePrice(TypeName(St, createModel, sName),
                            createModel, fPrice))

CreateSavePress ==
    /\ CanPress("create")
    /\ MissingRequired(St, createModel) \/ NextId(St) <= MaxId
    /\ Commit(CreateOnSavePress(St))

CreateNavBack ==
    /\ CanPress("create")
    /\ \E bPrev \in BOOLEAN :
           Commit(CreateOnNavBack(St, bPrev))

EditSavePress ==
    /\ CanPress("edit")
    /\ Commit(EditOnSavePress(St))

EditNavBack ==
    /\ CanPress("edit")
    /\ \E bPrev \in BOOLEAN :
           Commit(EditOnNavBack(St, bPrev))

Next ==
    \/ HashChanged
    \/ RouteMatched
    \/ MasterSelectionChange
    \/ MasterAddPress
    \/ DetailNavBack
    \/ DetailEditPress
    \/ DetailDeletePress
    \/ DetailDeleteClose
    \/ CreateType
    \/ CreateSavePress
    \/ CreateNavBack
    \/ EditSavePress
    \/ EditNavBack

Spec == Init /\ [][Next]_vars

(* ------------------- the forms: typing and saving ---------------------- *)
\* two-way binding of the Name and Price inputs of the Create and Edit forms
CreateTypeName ==
    /\ CanPress("create")
    /\ \E sName \in Names : Commit(TypeName(St, createModel, sName))

CreateTypePrice ==
    /\ CanPress("create")
    /\ \E fPrice \in Prices : Commit(TypePrice(St, createModel, fPrice))

EditTypeName ==
    /\ CanPress("edit")
    /\ editModel # 0
    /\ \E sName \in Names : Commit(TypeName(St, editModel, sName))

EditTypePrice ==
    /\ CanPress("edit")
    /\ editModel # 0
    /\ \E fPrice \in Prices : Commit(TypePrice(St, editModel, fPrice))

\* the user opens the Create form or the Edit form of a product once the
\* router has taken up every earlier hash change
OpenForm ==
    \E sRoute \in {"create", "edit"} :
    \E sProductId \in IF sRoute = "edit"
                      THEN RouteIds(St) \ {<<>>} ELSE {<<>>} :
        /\ aPending = <<>>
        /\ sHash # Hash(sRoute, sProductId)
        /\ Commit(SetHash(St, sRoute, sProductId))

NextForm ==
    \/ OpenForm
    \/ RouteMatched
    \/ CreateTypeName
    \/ CreateTypePrice
    \/ CreateSavePress
    \/ EditTypeName
    \/ EditTypePrice
    \/ EditSavePress

SpecForm == Init /\ [][NextForm]_vars

(* --------------------- the list: searching ----------------------------- *)
\* longest products array of the search specification
MaxListed == 2

\* texts of the Name, Description and Category of a listed product
ListedNames == {<<"a">>, <<"b">>, <<"a", "b">>}
ListedTexts == {<<>>, <<"b">>, <<"a", "b">>}

\* the Master view on display over an array of products with ProductIDs
\* "1", "2", ...
InitSearch ==
    \E n \in 0..MaxListed :
    \E aNames \in [1..n -> ListedNames] :
    \E aDescs \in [1..n -> ListedTexts] :
    \E aCats \in [1..n -> ListedTexts] :
        /\ heap = [o \in 1..n |-> Product(ToString(o), aNames[o], aDescs[o],
                                          5, aCats[o], <<>>)]
        /\ aProducts = [o \in 1..n |-> o]
        /\ sHash = Hash("master", <<>>)
        /\ aPending = <<>>
        /\ sDisplayed = "master"
        /\ createModel = 0
        /\ createSpecs = <<>>
        /\ editModel = 0
        /\ editSpecs = <<>>
        /\ productIndex = -1
        /\ detailModel = 0
        /\ aFilters = <<>>
        /\ aDialogs = <<>>
        /\ aToasts = <<>>
        /\ aMsgBoxes = <<>>
        /\ iLastIssued = 0
        /\ oFormatted = NoFormatCall
        /\ Constructed

NextSearch ==
    \/ MasterSearch

SpecSearch == InitSearch /\ [][NextSearch]_vars

(* ----------------------- the list: sorting ----------------------------- *)
\* the Sort button of the Master view pressed
MasterSort ==
    /\ CanPress("master")
    /\ iSortPresses < MaxPresses
    /\ \E r \in {OnSort(Mst)} :
           /\ bDescendingSort' = r.bDescendingSort
           /\ aSorters' = r.aSorters
           /\ aToasts' = r.aToasts
    /\ iSortPresses' = iSortPresses + 1
    /\ aMsgBoxes' = <<>>
    /\ UNCHANGED <<heap, aProducts, sHash, aPending, sDisplayed, createModel,
                   createSpecs, editModel, editSpecs, productIndex,
                   detailModel, aFilters, aDialogs, iLastIssued, oFormatted,
                   navigation, loader, fragments>>

NextSort ==
    \/ MasterSort

SpecSort == InitSearch /\ [][NextSort]_vars

(* ------------------- the forms: specification rows --------------------- *)
CreateAddSpecification ==
    /\ CanPress("create")
    /\ Len(createSpecs) < MaxRows
    /\ Commit([St EXCEPT !.createSpecs = AddSpecification(@)])

CreateDeleteSpecification ==
    /\ CanPress("create")
    /\ \E iIndex \in 0..(Len(createSpecs) - 1) :
           Commit([St EXCEPT !.createSpecs = DeleteSpecification(@, iIndex)])

CreateTypeSpecification ==
    /\ CanPress("create")
    /\ \E iIndex \in 0..(Len(createSpecs) - 1) :
       \E spec \in SpecRowInputs :
           Commit([St EXCEPT !.createSpecs =
                      TypeSpecification(@, iIndex, spec.key, spec.value)])

\* the Edit view has a "specs" model, and its table rows, only once a match
\* of the edit route has found a product
EditAddSpecification ==
    /\ CanPress("edit")
    /\ editModel # 0
    /\ Len(editSpecs) < MaxRows
    /\ Commit([St EXCEPT !.editSpecs = AddSpecification(@)])

EditDeleteSpecification ==
    /\ CanPress("edit")
    /\ \E iIndex \in 0..(Len(editSpecs) - 1) :
           Commit([St EXCEPT !.editSpecs = DeleteSpecification(@, iIndex)])

EditTypeSpecification ==
    /\ CanPress("edit")
    /\ \E iIndex \in 0..(Len(editSpecs) - 1) :
       \E spec \in SpecRowInputs :
           Commit([St EXCEPT !.editSpecs =
                      TypeSpecification(@, iIndex, spec.key, spec.value)])

\* Specifications objects of stored products
StoredSpecs ==
    {<<>>, <<Row(<<"k">>, <<"v">>)>>,
     <<Row(<<"k">>, <<"w">>), Row(<<"j">>, <<"v">>)>>}

\* the application before its data is loaded and a route is matched
Unstarted ==
    [heap |-> <<>>, aProducts |-> <<>>, sHash |-> Hash("none", <<>>),
     aPending |-> <<>>, sDisplayed |-> "none", createModel |-> 0,
     createSpecs |-> <<>>, editModel |-> 0, editSpecs |-> <<>>,
     productIndex |-> -1, detailModel |-> 0, detailPath |-> -1,
     aFilters |-> <<>>, aDialogs |-> <<>>, aToasts |-> <<>>,
     aMsgBoxes |-> <<>>, iLastIssued |-> 0, aNavCalls |-> <<>>,
     sPrevHash |-> "unread", bThrown |-> FALSE]

\* the application with one product, and the Create form or the Edit form
\* of that product just opened
InitRows ==
    \E oSpecifications \in StoredSpecs, sRoute \in {"create", "edit"} :
    \E s \in {[Unstarted EXCEPT !.heap = <<Product(<<"1">>, <<"a">>, <<>>, 5, <<>>,
                                            oSpecifications)>>,
                         !.aProducts = <<1>>,
                         !.sHash = Hash(sRoute, IF sRoute = "edit"
                                                THEN <<"1">> ELSE <<>>),
                         !.aPending = <<>>,
                         !.sDisplayed = sRoute]} :
    \E t \in {IF sRoute = "create" THEN OnCreateMatched(s)
              ELSE OnEditMatched(s, <<"1">>, TRUE)} :
        /\ heap = t.heap
        /\ aProducts = t.aProducts
        /\ sHash = t.sHash
        /\ aPending = t.aPending
        /\ sDisplayed = t.sDisplayed
        /\ createModel = t.createModel
        /\ createSpecs = t.createSpecs
        /\ editModel = t.editModel
        /\ editSpecs = t.editSpecs
        /\ productIndex = t.productIndex
        /\ detailModel = 0
        /\ aFilters = <<>>
        /\ aDialogs = <<>>
        /\ aToasts = <<>>
        /\ aMsgBoxes = <<>>
        /\ iLastIssued = 0
        /\ oFormatted = NoFormatCall
        /\ Constructed

OpenCreate ==
    /\ aPending = <<>>
    /\ sHash # Hash("create", <<>>)
    /\ Commit(SetHash(St, "create", <<>>))

NextRows ==
    \/ OpenCreate
    \/ RouteMatched
    \/ CreateType
    \/ CreateAddSpecification
    \/ CreateDeleteSpecification
    \/ CreateTypeSpecification
    \/ CreateSavePress
    \/ EditAddSpecification
    \/ EditDeleteSpecification
    \/ EditTypeSpecification
    \/ EditSavePress

SpecRows == InitRows /\ [][NextRows]_vars

(* ------------------- the formatter functions ---------------------------- *)
\* largest price and largest quantity a binding hands to a formatter
MaxPrice == 3
MaxQuantity == 52

\* the variables of the application, which a formatter does not touch
app == <<heap, aProducts, sHash, aPending, sDisplayed, createModel,
         createSpecs, editModel, editSpecs, productIndex, detailModel,
         aFilters, aDialogs, aToasts, aMsgBoxes, iLastIssued>>

\* a binding calls formatPrice with the Price (null when the record has
\* none) and the Currency
BindFormatPrice ==
    \E price \in {<<>>} \cup {<<n>> : n \in 0..MaxPrice} :
        /\ oFormatted' = FormatCall("formatPrice", price, FALSE, 0,
                                    FormatPrice(price, "USD"), "")
        /\ UNCHANGED <<app, services>>

\* a binding calls formatStockStatus with InStock and Quantity
BindFormatStockStatus ==
    \E inStock \in BOOLEAN, quantity \in 0..MaxQuantity :
        /\ oFormatted' = FormatCall("formatStockStatus", <<>>, inStock,
                                    quantity, <<>>, FormatStockStatus(inStock))
        /\ UNCHANGED <<app, services>>

BindFormatStockStatusState ==
    \E inStock \in BOOLEAN, quantity \in 0..MaxQuantity :
        /\ oFormatted' = FormatCall("formatStockStatusState", <<>>, inStock,
                                    quantity, <<>>,
                                    FormatStockStatusState(inStock))
        /\ UNCHANGED <<app, services>>

NextFormatter ==
    \/ BindFormatPrice
    \/ BindFormatStockStatus
    \/ BindFormatStockStatusState

SpecFormatter == Init /\ [][NextFormatter]_vars

(* -------------------------- NavigationService -------------------------- *)
\* names of the routes of the manifest the service is written for
ManifestRoutes ==
    {"home", "products", "productDetail", "productEdit", "productCreate",
     "categories", "categoryDetail", "categoryProducts", "search",
     "settings", "admin"}

\* the service's history, guards and unsettled promises.  Besides them the
\* record carries what a call does and which does not outlive it:
\* aRouterCalls (its router.navTo calls), aHistoryGo (its window.history.go
\* calls) and aNavSettled (the promises it settles)
Nav == [aNavigationHistory |-> aNavigationHistory,
        mNavigationGuards |-> mNavigationGuards,
        aNavigations |-> aNavigations,
        aNavSettled |-> <<>>, aRouterCalls |-> <<>>, aHistoryGo |-> <<>>]

\* _routeExists
RouteExists(sRouteName) == sRouteName \in ManifestRoutes

\* an entry of the history; nothing reads its timestamp
HistoryEntry(sRouteName, mParameters) ==
    [route |-> sRouteName, parameters |-> mParameters]

\* a router.navTo call
RouterCall(sRouteName, mParameters, bReplace) ==
    [route |-> sRouteName, parameters |-> mParameters, replace |-> bReplace]

\* a promise of navigateTo that has been settled
Settlement(sRouteName, sState, sError) ==
    [route |-> sRouteName, state |-> sState, error |-> sError]

\* _addToHistory
AddToHistory(aHistory, sRouteName, mParameters) ==
    LET a == Append(aHistory, HistoryEntry(sRouteName, mParameters))
    IN IF Len(a) > iMaxHistorySize THEN Tail(a) ELSE a

\* addNavigationGuard; a guard is the outcome of its call: it returns true
\* ("true"), false ("false") or another value ("truthy"), plain or through
\* a promise, returns a promise that rejects ("reject") or throws ("throw")
AddNavigationGuard(n, sRouteName, fnGuard) ==
    [n EXCEPT !.mNavigationGuards =
        [r \in DOMAIN @ \cup {sRouteName} |->
            IF r = sRouteName
            THEN (IF r \in DOMAIN @ THEN @[r] ELSE <<>>) \o <<fnGuard>>
            ELSE @[r]]]

\* _checkNavigationGuards with some guard's true taken for enough
CheckNavigationGuardsSome(oNavigation) ==
    IF ~oNavigation.guarded THEN "allowed"
    ELSE IF \E k \in 1..Len(oNavigation.results) :
                /\ oNavigation.results[k] = "throw"
                /\ \A j \in 1..(k - 1) : oNavigation.results[j] # "throw"
    THEN "error"
    ELSE IF \E k \in 1..Len(oNavigation.results) :
                oNavigation.results[k] = "reject"
    THEN "blocked"
    ELSE IF \E k \in 1..Len(oNavigation.results) :
                oNavigation.results[k] = "true"
    THEN "allowed"
    ELSE "blocked"

\* _checkNavigationGuards on the results of the guards called for a
\* navigation: a guard that throws makes the check's promise reject, a
\* rejecting guard makes it resolve to false, else it resolves to whether
\* every result is === true
CheckNavigationGuards(oNavigation) ==
    IF ~oNavigation.guarded THEN "allowed"
    ELSE IF \E k \in 1..Len(oNavigation.results) :
                oNavigation.results[k] = "throw"
    THEN "error"
    ELSE IF \E k \in 1..Len(oNavigation.results) :
                oNavigation.results[k] = "reject"
    THEN "blocked"
    ELSE IF \A k \in 1..Len(oNavigation.results) :
                oNavigation.results[k] = "true"
    THEN "allowed"
    ELSE "blocked"

\* navigateTo up to its return: an unknown route rejects the promise; else
\* the guards of the route are called and the promise waits for their
\* results
NavigateTo(n, sRouteName, mParameters, bReplace) ==
    IF ~RouteExists(sRouteName)
    THEN [n EXCEPT !.aNavSettled =
             Append(@, Settlement(sRouteName, "rejected", "Route not found"))]
    ELSE [n EXCEPT !.aNavigations =
             Append(@, [route |-> sRouteName, parameters |-> mParameters,
                        replace |-> bReplace,
                        guarded |-> sRouteName \in DOMAIN n.mNavigationGuards,
                        results |-> IF sRouteName \in DOMAIN n.mNavigationGuards
                                    THEN n.mNavigationGuards[sRouteName]
                                    ELSE <<>>])]

\* the then and catch callbacks of navigateTo for the i-th unsettled
\* promise, once the results of its guards are there
SettleNavigation(n, i) ==
    LET o == n.aNavigations[i]
        sCheck == CheckNavigationGuards(o)
        t == [n EXCEPT !.aNavigations = Splice(@, i - 1)]
    IN IF sCheck = "allowed"
       THEN [t EXCEPT !.aNavigationHistory =
                          AddToHistory(@, o.route, o.parameters),
                      !.aRouterCalls =
                          Append(@, RouterCall(o.route, o.parameters, o.replace)),
                      !.aNavSettled =
                          Append(@, Settlement(o.route, "resolved", ""))]
       ELSE [t EXCEPT !.aNavSettled =
                Append(@, Settlement(o.route, "rejected",
                                     IF sCheck = "blocked"
                                     THEN "Navigation blocked by guard"
                                     ELSE "guard error"))]

\* navigateBack(iSteps); iSteps is 0 when the call has no argument
NavigateBack(n, iStepsParam) ==
    LET iSteps == IF iStepsParam = 0 THEN 1 ELSE iStepsParam
        iLen == Len(n.aNavigationHistory)
    IN IF iLen > iSteps
       THEN NavigateTo(n, n.aNavigationHistory[iLen - iSteps].route,
                       n.aNavigationHistory[iLen - iSteps].parameters, TRUE)
       ELSE [n EXCEPT !.aHistoryGo = Append(@, 0 - iSteps)]

\* route names navigateTo is called with: "profile" is no route of the
\* manifest
NavRoutes == {"home", "productDetail", "profile"}
\* routes that guards are registered for
GuardedRoutes == {"productDetail"}
\* the guards
Guards == {"true", "false", "truthy", "reject", "throw"}

\* the state a call of the service leaves behind
CommitNav(n) ==
    \E t \in {n} :
    /\ Len(t.aNavigations) <= MaxInFlight
    /\ aNavigationHistory' = t.aNavigationHistory
    /\ mNavigationGuards' = t.mNavigationGuards
    /\ aNavigations' = t.aNavigations
    /\ aNavSettled' = t.aNavSettled
    /\ UNCHANGED <<app, oFormatted, master, loader, fragments>>

NavAddNavigationGuard ==
    \E sRouteName \in GuardedRoutes, fnGuard \in Guards :
        /\ sRouteName \in DOMAIN mNavigationGuards =>
               Len(mNavigationGuards[sRouteName]) < MaxGuards
        /\ CommitNav(AddNavigationGuard(Nav, sRouteName, fnGuard))

NavNavigateTo ==
    /\ Len(aNavigations) <= MaxInFlight
    /\ \E sRouteName \in NavRoutes, bReplace \in BOOLEAN :
           CommitNav(NavigateTo(Nav, sRouteName, <<>>, bReplace))

NavNavigateBack ==
    /\ Len(aNavigations) <= MaxInFlight
    /\ \E iStepsParam \in {0, 2} : CommitNav(NavigateBack(Nav, iStepsParam))

\* a promise without guards is settled before a later one
NavSettle ==
    \E i \in 1..Len(aNavigations) :
        /\ \A j \in 1..(i - 1) : aNavigations[j].guarded
        /\ CommitNav(SettleNavigation(Nav, i))

NextNavigation ==
    \/ NavAddNavigationGuard
    \/ NavNavigateTo
    \/ NavNavigateBack
    \/ NavSettle

SpecNavigation == Init /\ [][NextNavigation]_vars

(* ------------------------------ LazyLoader ----------------------------- *)
\* the loader's maps and the promises it has created; a promise is known
\* by its position in aLoadPromises.  oLoadReturned is what the call
\* returns: [promise |-> p] for the p-th created promise, and promise 0
\* with state and value for a promise made by Promise.resolve
Ld == [mLoadedModules |-> mLoadedModules,
       mLoadingPromises |-> mLoadingPromises,
       aLoadPromises |-> aLoadPromises, oLoadReturned |-> NoPromise]

\* the module a name stands for
ModuleOf(sModuleName) == sModuleName

\* Map.prototype.set and Map.prototype.delete
MapSet(mMap, key, value) ==
    [k \in DOMAIN mMap \cup {key} |-> IF k = key THEN value ELSE mMap[k]]
MapDelete(mMap, key) == [k \in DOMAIN mMap \ {key} |-> mMap[k]]

\* a promise of loadModule as it is created, and as it is returned
LoadPromise(sModuleName) ==
    [module |-> sModuleName, state |-> "pending", value |-> ""]
Returned(p) == [promise |-> p, state |-> "", value |-> ""]

\* loadModule
LoadModule(l, sModuleName) ==
    IF sModuleName \in DOMAIN l.mLoadedModules
    THEN [l EXCEPT !.oLoadReturned =
             [promise |-> 0, state |-> "resolved",
              value |-> l.mLoadedModules[sModuleName]]]
    ELSE IF sModuleName \in DOMAIN l.mLoadingPromises
    THEN [l EXCEPT !.oLoadReturned =
             Returned(l.mLoadingPromises[sModuleName])]
    ELSE LET p == Len(l.aLoadPromises) + 1 IN
         [l EXCEPT !.aLoadPromises = Append(@, LoadPromise(sModuleName)),
                   !.mLoadingPromises = MapSet(@, sModuleName, p),
                   !.oLoadReturned = Returned(p)]

\* the success callback of the sap.ui.require of promise p
RequireLoaded(l, p) ==
    LET sModuleName == l.aLoadPromises[p].module IN
    [l EXCEPT !.mLoadedModules = MapSet(@, sModuleName, ModuleOf(sModuleName)),
              !.mLoadingPromises = MapDelete(@, sModuleName),
              !.aLoadPromises[p].state = "resolved",
              !.aLoadPromises[p].value = ModuleOf(sModuleName)]

\* the error callback without the delete of the pending entry
RequireFailedKeepPending(l, p) ==
    [l EXCEPT !.aLoadPromises[p].state = "rejected"]

\* the error callback of the sap.ui.require of promise p
RequireFailed(l, p) ==
    LET sModuleName == l.aLoadPromises[p].module IN
    [l EXCEPT !.mLoadingPromises = MapDelete(@, sModuleName),
              !.aLoadPromises[p].state = "rejected"]

\* module names loadModule is called with
ModuleNames == {"com/productapp/controller/Master",
                "com/productapp/model/formatter"}

\* the state a call or a callback of the loader leaves behind
CommitLoad(l) ==
    \E t \in {l} :
    /\ Len(t.aLoadPromises) <= MaxLoads
    /\ mLoadedModules' = t.mLoadedModules
    /\ mLoadingPromises' = t.mLoadingPromises
    /\ aLoadPromises' = t.aLoadPromises
    /\ oLoadReturned' = t.oLoadReturned
    /\ UNCHANGED <<app, oFormatted, master, navigation, fragments>>

LoaderLoadModule ==
    /\ Len(aLoadPromises) <= MaxLoads
    /\ \E sModuleName \in ModuleNames :
           CommitLoad(LoadModule(Ld, sModuleName))

\* sap.ui.require calls its callbacks after loadModule has returned
LoaderRequireLoaded ==
    \E p \in 1..Len(aLoadPromises) :
        /\ aLoadPromises[p].state = "pending"
        /\ CommitLoad(RequireLoaded(Ld, p))

LoaderRequireFailed ==
    \E p \in 1..Len(aLoadPromises) :
        /\ aLoadPromises[p].state = "pending"
        /\ CommitLoad(RequireFailed(Ld, p))

NextLoader ==
    \/ LoaderLoadModule
    \/ LoaderRequireLoaded
    \/ LoaderRequireFailed

SpecLoader == Init /\ [][NextLoader]_vars

(* --------------------------- FragmentManager --------------------------- *)
\* the manager's fields, the fragment instances and the promises.  An
\* instance and a promise are known by their positions in aFragments and
\* in aConfirmPromises
Fm == [mFragments |-> mFragments, aFragments |-> aFragments,
       aFragmentLoads |-> aFragmentLoads,
       fnConfirmResolve |-> fnConfirmResolve,
       aConfirmPromises |-> aConfirmPromises]

\* a fragment instance as Fragment.load creates it
Fragment(sFragmentName) ==
    [name |-> sFragmentName, open |-> FALSE, destroyed |-> FALSE,
     data |-> ""]

\* openFragment up to its return: a stored fragment is bound to the data
\* and opened, else Fragment.load is called
OpenFragment(f, sFragmentName, oData) ==
    IF sFragmentName \in DOMAIN f.mFragments
    THEN [f EXCEPT !.aFragments[f.mFragments[sFragmentName]].data = oData,
                   !.aFragments[f.mFragments[sFragmentName]].open = TRUE]
    ELSE [f EXCEPT !.aFragmentLoads =
             Append(@, [name |-> sFragmentName, data |-> oData])]

\* the then callback of the i-th unsettled Fragment.load, on the instance
\* the load has created
FragmentLoaded(f, i) ==
    LET o == f.aFragmentLoads[i]
        x == Len(f.aFragments) + 1
    IN [f EXCEPT !.aFragmentLoads = Splice(@, i - 1),
                 !.aFragments =
                     Append(@, [Fragment(o.name) EXCEPT !.data = o.data,
                                                        !.open = TRUE]),
                 !.mFragments = MapSet(@, o.name, x)]

\* the catch callback of the i-th unsettled Fragment.load
FragmentLoadFailed(f, i) == [f EXCEPT !.aFragmentLoads = Splice(@, i - 1)]

\* closeFragment
CloseFragment(f, sFragmentName) ==
    IF sFragmentName \in DOMAIN f.mFragments
    THEN [f EXCEPT !.aFragments[f.mFragments[sFragmentName]].open = FALSE]
    ELSE f

\* destroyFragment
DestroyFragment(f, sFragmentName) ==
    IF sFragmentName \in DOMAIN f.mFragments
    THEN [f EXCEPT !.aFragments[f.mFragments[sFragmentName]].destroyed = TRUE,
                   !.aFragments[f.mFragments[sFragmentName]].open = FALSE,
                   !.mFragments = MapDelete(@, sFragmentName)]
    ELSE f

\* showConfirmationDialog: the promise it returns is the next of
\* aConfirmPromises
ShowConfirmationDialog(f, sMessage) ==
    LET p == Len(f.aConfirmPromises) + 1 IN
    OpenFragment([f EXCEPT !.aConfirmPromises =
                               Append(@, [state |-> "pending",
                                          value |-> FALSE]),
                           !.fnConfirmResolve = p],
                 "ConfirmationDialog", sMessage)

\* handleConfirmationResult; resolving a promise that is resolved already
\* has no effect
HandleConfirmationResult(f, bConfirmed) ==
    LET p == f.fnConfirmResolve
        t == IF p = 0 THEN f
             ELSE [f EXCEPT !.aConfirmPromises[p] =
                                IF @.state = "pending"
                                THEN [state |-> "resolved",
                                      value |-> bConfirmed]
                                ELSE @,
                            !.fnConfirmResolve = 0]
    IN CloseFragment(t, "ConfirmationDialog")

\* names of the fragments the controllers open
FragmentNames == {"ProductDetails"}
\* data bound to a fragment
FragmentData == {"x", "y"}

\* the state a call or a callback of the manager leaves behind
CommitFragments(f) ==
    \E t \in {f} :
    /\ Len(t.aFragments) <= MaxInstances
    /\ Len(t.aFragmentLoads) <= MaxFragmentLoads
    /\ Len(t.aFragments) + Len(t.aFragmentLoads) <= MaxInstances
    /\ Len(t.aConfirmPromises) <= MaxConfirms
    /\ mFragments' = t.mFragments
    /\ aFragments' = t.aFragments
    /\ aFragmentLoads' = t.aFragmentLoads
    /\ fnConfirmResolve' = t.fnConfirmResolve
    /\ aConfirmPromises' = t.aConfirmPromises
    /\ UNCHANGED <<app, oFormatted, master, navigation, loader>>

FragmentsOpenFragment ==
    /\ Len(aFragmentLoads) <= MaxFragmentLoads
    /\ \E sFragmentName \in FragmentNames, oData \in FragmentData :
           CommitFragments(OpenFragment(Fm, sFragmentName, oData))

FragmentsLoaded ==
    \E i \in 1..Len(aFragmentLoads) : CommitFragments(FragmentLoaded(Fm, i))

FragmentsLoadFailed ==
    \E i \in 1..Len(aFragmentLoads) :
        CommitFragments(FragmentLoadFailed(Fm, i))

FragmentsCloseFragment ==
    \E sFragmentName \in FragmentNames :
        /\ sFragmentName \in DOMAIN mFragments
        /\ CommitFragments(CloseFragment(Fm, sFragmentName))

FragmentsDestroyFragment ==
    \E sFragmentName \in FragmentNames \cup {"ConfirmationDialog"} :
        /\ sFragmentName \in DOMAIN mFragments
        /\ CommitFragments(DestroyFragment(Fm, sFragmentName))

FragmentsShowConfirmationDialog ==
    /\ Len(aConfirmPromises) < MaxConfirms
    /\ \E sMessage \in FragmentData :
           CommitFragments(ShowConfirmationDialog(Fm, sMessage))

\* a button of the confirmation dialog pressed, which needs the dialog open
FragmentsHandleConfirmationResult ==
    \E bConfirmed \in BOOLEAN :
        /\ \E x \in 1..Len(aFragments) :
               /\ aFragments[x].name = "ConfirmationDialog"
               /\ aFragments[x].open
        /\ CommitFragments(HandleConfirmationResult(Fm, bConfirmed))

NextFragments ==
    \/ FragmentsOpenFragment
    \/ FragmentsLoaded
    \/ FragmentsLoadFailed
    \/ FragmentsCloseFragment
    \/ FragmentsDestroyFragment
    \/ FragmentsShowConfirmationDialog
    \/ FragmentsHandleConfirmationResult

SpecFragments == Init /\ [][NextFragments]_vars

(* ------------------------------ properties ----------------------------- *)
\* the records of a state's array, in array order: <<record>> for an
\* element, <<>> for a hole
RecsOf(s) ==
    [k \in 1..Len(s.aProducts) |->
        IF s.aProducts[k] = 0 THEN <<>> ELSE <<s.heap[s.aProducts[k]]>>]

Recs == RecsOf(St)

\* the largest number a ProductID of the sequence parses to, 0 if none does
MaxNumericId(aRecs) ==
    LET nums == {ParseInt(aRecs[k][1].ProductID) :
                    k \in {j \in 1..Len(aRecs) : aRecs[j] # <<>>}} \ {NaN}
    IN IF nums = {} THEN 0 ELSE CHOOSE m \in nums : \A n \in nums : n <= m

\* the step is a Create-save, an Edit-save, a confirmed Delete that reports
\* success (only these handlers show the respective toast)
CreateSaved == aToasts' = <<"Product created successfully">>
EditSaved == aToasts' = <<"Product updated successfully">>
DeleteReported == aToasts' = <<"Product deleted successfully">>

\* C1: no two records of the products array have the same ProductID
C1_UniqueProductIds ==
    \A j, k \in 1..Len(Recs) :
        (j # k /\ Recs[j] # <<>> /\ Recs[k] # <<>>)
            => Recs[j][1].ProductID # Recs[k][1].ProductID

\* C2: a successful Create-save appends exactly one record, whose ProductID
\* is the decimal string of 1 + the largest numeric ProductID of the array
\* (1 if there is none), and leaves every record that was there unchanged
C2_CreateSaveAppendsNextId ==
    [][CreateSaved =>
          /\ Len(Recs') = Len(Recs) + 1
          /\ SubSeq(Recs', 1, Len(Recs)) = Recs
          /\ Recs'[Len(Recs')] # <<>>
          /\ Recs'[Len(Recs')][1].ProductID = ToString(MaxNumericId(Recs) + 1)
      ]_vars

\* C3: the number a Create-save issues is strictly greater than the number
\* the previous Create-save issued (so than every earlier one)
C3_IssuedIdsIncrease ==
    [][CreateSaved =>
          ParseInt(Recs'[Len(Recs')][1].ProductID) > iLastIssued]_vars

\* C4: a confirmed Delete removes exactly the record whose ProductID is the
\* one of the product shown when Delete was pressed: the array gets one
\* shorter and every other record stays, unchanged and in order
C4_DeleteRemovesShownRecord ==
    [][\A d \in 1..Len(aDialogs) :
          (/\ aDialogs[d] # <<>>
           /\ aDialogs' = Splice(aDialogs, d - 1)
           /\ DeleteReported)
              => \E p \in 1..Len(Recs) :
                     /\ Recs[p] # <<>>
                     /\ Recs[p][1].ProductID = aDialogs[d]
                     /\ Recs' = Splice(Recs, p - 1)
      ]_vars

\* position p holds the first record with ProductID sId, and the scan from
\* the start of the array meets no hole before it
FirstReached(aRecs, sId, p) ==
    /\ aRecs[p] # <<>>
    /\ aRecs[p][1].ProductID = sId
    /\ \A j \in 1..(p - 1) : aRecs[j] # <<>> /\ aRecs[j][1].ProductID # sId

\* C5: pressing Delete changes neither the array nor the route and reports
\* nothing; so does closing the dialog with an action other than OK; the
\* success toast is shown only when a dialog closes with OK
C5_DeleteNeedsConfirmation ==
    [][/\ DetailDeletePress =>
              /\ Recs' = Recs /\ sHash' = sHash /\ aToasts' = <<>>
              /\ OnDeletePress(St).aNavCalls = <<>>
       /\ \A d \in 1..Len(aDialogs) : \A oAction \in Actions \ {"OK"} :
              Commit(OnClose(St, d, oAction)) =>
                  /\ Recs' = Recs /\ sHash' = sHash /\ aToasts' = <<>>
                  /\ OnClose(St, d, oAction).aNavCalls = <<>>
       /\ DeleteReported =>
              \E d \in 1..Len(aDialogs) : Commit(OnClose(St, d, "OK"))
      ]_vars

C5_Witness ==
    /\ aDialogs # <<>>
    /\ \E p \in 1..Len(Recs) : FirstReached(Recs, aDialogs[1], p)

\* C6: a successful Edit-save replaces the array element whose ProductID is
\* the one of the product being edited and nothing else: the length, the
\* ProductID at that position and every other record stay as they were
C6_EditSaveReplacesEdited ==
    [][EditSaved =>
          \E p \in 1..Len(Recs) :
              /\ Recs[p] # <<>>
              /\ Recs[p][1].ProductID = heap[editModel].ProductID
              /\ Len(Recs') = Len(Recs)
              /\ Recs'[p] # <<>>
              /\ Recs'[p][1].ProductID = Recs[p][1].ProductID
              /\ \A k \in 1..Len(Recs) : k # p => Recs'[k] = Recs[k]
      ]_vars

\* the state in which the pending route's patternMatched handler runs
PendingMatch ==
    [St EXCEPT !.aPending = Tail(@), !.sDisplayed = Head(aPending).route]

\* what the patternMatched handler of the pending detail or edit route
\* returns
Matched(bPrev) ==
    IF Head(aPending).route = "detail"
    THEN OnProductMatched(PendingMatch, Head(aPending).productId, bPrev)
    ELSE OnEditMatched(PendingMatch, Head(aPending).productId, bPrev)

HasRecord(sId) ==
    \E k \in 1..Len(Recs) : Recs[k] # <<>> /\ Recs[k][1].ProductID = sId

\* C8: when the detail or edit route is matched with a productId no record
\* has, the handler shows 'Product not found' and then navigates away, by
\* one step back in the history if there is a previous hash and by a navTo
\* to a fallback route if not, and the array is unchanged
C8_UnknownIdToastAndNavigateAway ==
    \A bPrev \in BOOLEAN :
        (/\ aPending # <<>>
         /\ Head(aPending).route \in {"detail", "edit"}
         /\ ~HasRecord(Head(aPending).productId))
            => LET r == Matched(bPrev) IN
               /\ r.aToasts = <<"Product not found">>
               /\ ~r.bThrown
               /\ Len(r.aNavCalls) = 1
               /\ r.aNavCalls[1].fn = IF bPrev THEN "history.go" ELSE "navTo"
               /\ RecsOf(r) = Recs

\* C9: when the detail route is matched with a productId some record has,
\* the Detail view's model is the first record with that ProductID, and the
\* binding path '/i' has the index i of that record
C9_DetailShowsFirstMatch ==
    \A bPrev \in BOOLEAN :
        (/\ aPending # <<>>
         /\ Head(aPending).route = "detail"
         /\ HasRecord(Head(aPending).productId))
            => LET r == Matched(bPrev)
                   p == CHOOSE q \in 1..Len(Recs) :
                            /\ Recs[q] # <<>>
                            /\ Recs[q][1].ProductID = Head(aPending).productId
                            /\ \A j \in 1..(q - 1) :
                                   Recs[j] = <<>> \/ Recs[j][1].ProductID
                                                      # Head(aPending).productId
               IN /\ ~r.bThrown
                  /\ r.detailModel = r.aProducts[p]
                  /\ r.heap[r.detailModel] = Recs[p][1]
                  /\ r.detailPath = p - 1

\* the form whose model object is oModel has an empty Name or a falsy Price
\* (a view without a form model has neither)
FormIncomplete(oModel) ==
    \/ oModel = 0
    \/ heap[oModel].Name = <<>>
    \/ heap[oModel].Price = 0

\* C7: in the Create and in the Edit form, Save with an empty Name or a
\* falsy Price (the default 0 included) shows the error box 'Please fill in
\* all required fields' and does nothing else: no toast, no navigation, no
\* ProductID generated, array and every other part of the state unchanged
C7_MissingRequiredOnlyErrorBox ==
    /\ FormIncomplete(createModel) =>
           CreateOnSavePress(St) =
               [St EXCEPT !.aMsgBoxes = <<"Please fill in all required fields">>]
    /\ FormIncomplete(editModel) =>
           EditOnSavePress(St) =
               [St EXCEPT !.aMsgBoxes = <<"Please fill in all required fields">>]

C7_Witness ==
    /\ aMsgBoxes = <<"Please fill in all required fields">>
    /\ sDisplayed = "edit"
    /\ editModel # 0
    /\ heap[editModel].Name # <<>>
    /\ heap[editModel].Price = 0

\* sub is a contiguous part of s
IsSubstring(sub, s) ==
    \E i \in 0..Len(s) : \E j \in i..Len(s) : SubSeq(s, i + 1, j) = sub

C11_SelectionNavigatesToDetail ==
    \A i \in Listed(St) :
        At(St, i) # 0 =>
            LET r == OnSelectionChange(St, i) IN
            /\ r.aNavCalls = <<NavCall("navTo", "detail",
                                       Recs[i + 1][1].ProductID, FALSE)>>
            /\ ~r.bThrown
            /\ r.sHash = Hash("detail", Recs[i + 1][1].ProductID)
            /\ RecsOf(r) = Recs

\* the Master view is on display and the router has a detail hash of a
\* record of the array to match
C11_Witness ==
    /\ sDisplayed = "master"
    /\ aPending = <<sHash>>
    /\ sHash.route = "detail"
    /\ HasRecord(sHash.productId)

\* C12: formatPrice gives the empty string for a null price and, for the
\* price 0, a non-empty text with the digit 0 in it
C12_FormatPriceOfZero ==
    oFormatted.fn = "formatPrice" =>
        /\ oFormatted.price = <<>> => oFormatted.sText = <<>>
        /\ oFormatted.price = <<0>> =>
               \E k \in 1..Len(oFormatted.sText) : oFormatted.sText[k] = "0"

\* C13: formatStockStatus(inStock, quantity) is 'Out of Stock' when inStock
\* is false or quantity is 0, 'Low Stock' for a quantity of 1..10, 'Limited
\* Stock' for 11..50 and 'In Stock' above 50
C13_StockStatusByQuantity ==
    oFormatted.fn = "formatStockStatus" =>
        oFormatted.sStatus =
            IF ~oFormatted.inStock \/ oFormatted.quantity = 0
            THEN "Out of Stock"
            ELSE IF oFormatted.quantity <= 10 THEN "Low Stock"
            ELSE IF oFormatted.quantity <= 50 THEN "Limited Stock"
            ELSE "In Stock"

\* the state the next handler starts from: what the last handler showed,
\* asked for and threw is gone
Settled(s) ==
    [s EXCEPT !.aToasts = <<>>, !.aMsgBoxes = <<>>, !.aNavCalls = <<>>,
              !.sPrevHash = "unread", !.bThrown = FALSE, !.detailPath = -1]

\* the Edit form's Name and Price inputs written, a row added to its table,
\* written and a row deleted
EditFormChanged(s, sName, fPrice, sKey, sValue, iIndex) ==
    [TypePrice(TypeName(s, s.editModel, sName), s.editModel, fPrice)
        EXCEPT !.editSpecs =
            DeleteSpecification(
                TypeSpecification(AddSpecification(@), Len(@), sKey, sValue),
                iIndex)]

\* C14: when the edit route has been matched for a product of the array,
\* the form's object is none of the array's, and whatever is then written
\* into the form's fields and rows, and leaving by the back button, leaves
\* every record of the array as it was
C14_EditFormIsACopy ==
    \A bPrev \in BOOLEAN :
        (/\ aPending # <<>>
         /\ Head(aPending).route = "edit"
         /\ FindIndex(PendingMatch, Head(aPending).productId) >= 0)
            => LET r == Settled(Matched(bPrev)) IN
               /\ RecsOf(r) = Recs
               /\ \A k \in 1..Len(r.aProducts) : r.aProducts[k] # r.editModel
               /\ \A sName \in Names, fPrice \in Prices :
                  \A spec \in SpecRowInputs :
                  \A iIndex \in -1..0, bBack \in BOOLEAN :
                      LET t == EditFormChanged(r, sName, fPrice, spec.key,
                                               spec.value, iIndex)
                      IN /\ RecsOf(t) = Recs
                         /\ RecsOf(EditOnNavBack(t, bBack)) = Recs

\* the Edit form shows a product of the array under a Name that the
\* array's record does not have
C14_Witness ==
    /\ sDisplayed = "edit"
    /\ editModel # 0
    /\ \A k \in 1..Len(aProducts) : aProducts[k] # editModel
    /\ \E k \in 1..Len(Recs) :
           /\ Recs[k] # <<>>
           /\ Recs[k][1].ProductID = heap[editModel].ProductID
           /\ Recs[k][1].Name # heap[editModel].Name

\* C16: after a successful Edit-save, writing into the fields of the Edit
\* form does not change the records of the array
C16_StoredRecordOnlyChangedBySave ==
    LET r == EditOnSavePress(St) IN
    r.aToasts = <<"Product updated successfully">> =>
        \A sName \in Names, fPrice \in Prices :
            RecsOf(TypePrice(TypeName(Settled(r), r.editModel, sName),
                             r.editModel, fPrice)) = RecsOf(r)

\* C17: when the edit route is matched and no record has the productId, a
\* Save pressed on the Edit view next leaves the array as it is, and if the
\* form passes the validation the Save reports 'Error updating product'
C17_SaveAfterFailedMatchChangesNothing ==
    \A bPrev \in BOOLEAN :
        (/\ aPending # <<>>
         /\ Head(aPending).route = "edit"
         /\ FindIndex(PendingMatch, Head(aPending).productId) = -1)
            => LET r == Settled(Matched(bPrev))
                   q == EditOnSavePress(r)
               IN /\ RecsOf(q) = Recs
                  /\ q.aToasts = <<>>
                  /\ ~FormIncomplete(editModel) =>
                         q.aMsgBoxes = <<"Error updating product">>

\* C15: a successful Save on the Create form stores an object that no
\* earlier element of the array is, with a ProductID that no earlier record
\* has, and leaves the earlier records, their ProductIDs included, as they
\* were
C15_CreateSaveStoresIndependentRecord ==
    [][CreateSaved =>
          \A k \in 1..Len(Recs) :
              /\ aProducts'[k] # aProducts'[Len(aProducts')]
              /\ Recs'[k] = Recs[k]
              /\ Recs'[k] # <<>> =>
                     Recs'[k][1].ProductID
                         # Recs'[Len(Recs')][1].ProductID
      ]_vars

\* the rows of a table that a save takes up: key and value both non-empty
ValidRows(aSpecs) ==
    {k \in 1..Len(aSpecs) : aSpecs[k].key # <<>> /\ aSpecs[k].value # <<>>}

\* oSpecifications has exactly the keys of the valid rows of aSpecs, each
\* once and with the value of the last valid row that has the key
IsMappingOfRows(oSpecifications, aSpecs) ==
    /\ \A j, k \in 1..Len(oSpecifications) :
           j # k => oSpecifications[j].key # oSpecifications[k].key
    /\ \A k \in ValidRows(aSpecs) :
           \E j \in 1..Len(oSpecifications) :
               oSpecifications[j].key = aSpecs[k].key
    /\ \A j \in 1..Len(oSpecifications) :
           \E k \in ValidRows(aSpecs) :
               /\ aSpecs[k].key = oSpecifications[j].key
               /\ aSpecs[k].value = oSpecifications[j].value
               /\ \A l \in ValidRows(aSpecs) :
                      aSpecs[l].key = aSpecs[k].key => l <= k

\* C18: the product a successful Create-save or Edit-save stores has as
\* Specifications exactly the rows of the form's table with a non-empty key
\* and a non-empty value, each key with the value of the last of these rows
\* that has it
C18_StoredSpecificationsAreTheValidRows ==
    [][/\ CreateSaved =>
              /\ Recs'[Len(Recs')] # <<>>
              /\ IsMappingOfRows(Recs'[Len(Recs')][1].Specifications,
                                 createSpecs)
       /\ EditSaved =>
              /\ Recs'[productIndex + 1] # <<>>
              /\ IsMappingOfRows(Recs'[productIndex + 1][1].Specifications,
                                 editSpecs)
      ]_vars

\* a Create-save has stored the value of the second of two rows with the
\* same key
C18_Witness ==
    /\ aToasts = <<"Product created successfully">>
    /\ Len(createSpecs) = 2
    /\ createSpecs[1].key = createSpecs[2].key
    /\ createSpecs[1].value # createSpecs[2].value
    /\ ValidRows(createSpecs) = {1, 2}
    /\ Recs[Len(Recs)][1].Specifications
           = <<Row(createSpecs[2].key, createSpecs[2].value)>>

\* two Specifications objects have the same properties with the same values
SameMapping(oSpecifications, oOther) ==
    /\ \A k \in 1..Len(oSpecifications) : \E j \in 1..Len(oOther) :
           oOther[j] = oSpecifications[k]
    /\ \A j \in 1..Len(oOther) : \E k \in 1..Len(oSpecifications) :
           oSpecifications[k] = oOther[j]

C20_CreateMatchResetsForm ==
    (aPending # <<>> /\ Head(aPending).route = "create")
        => LET r == OnCreateMatched(PendingMatch) IN
           /\ r.createModel # 0
           /\ \A k \in 1..Len(r.aProducts) : r.aProducts[k] # r.createModel
           /\ r.heap[r.createModel].Name = <<>>
           /\ r.heap[r.createModel].Description = <<>>
           /\ r.heap[r.createModel].Price = 0
           /\ r.heap[r.createModel].Currency = "USD"
           /\ r.heap[r.createModel].Category = <<>>
           /\ r.heap[r.createModel].SupplierName = <<>>
           /\ r.heap[r.createModel].InStock = TRUE
           /\ r.heap[r.createModel].Quantity = 0
           /\ r.heap[r.createModel].Rating = 0
           /\ r.heap[r.createModel].Specifications = <<>>
           /\ r.createSpecs = <<>>
           /\ RecsOf(r) = Recs

\* the create route is to be matched while the Create form still has the
\* Name, the rows and the stored object of a visit that ended with a save
C20_Witness ==
    /\ aPending # <<>>
    /\ Head(aPending).route = "create"
    /\ createModel # 0
    /\ \E k \in 1..Len(aProducts) : aProducts[k] = createModel
    /\ heap[createModel].Name # <<>>
    /\ createSpecs # <<>>

\* C21: the sort flag starts ascending; after the k-th Sort press the flag
\* is descending exactly when k is odd, the list binding has the one sorter
\* by Name in that direction, the toast names that direction ('Sorted Z to
\* A' for descending, 'Sorted A to Z' for ascending) and the items of the
\* list are in that order of their Names
C21_SortPressesAlternate ==
    LET bOdd == iSortPresses % 2 = 1
        aItems == ListItems(St, aSorters, Len(aProducts))
    IN /\ bDescendingSort = bOdd
       /\ iSortPresses = 0 => aSorters = <<>>
       /\ iSortPresses > 0 =>
              /\ aSorters = <<Sorter("Name", bOdd)>>
              /\ aToasts = <<IF bOdd THEN "Sorted Z to A"
                             ELSE "Sorted A to Z">>
              /\ \A k \in 1..(Len(aItems) - 1) :
                     LET c == CompareText(heap[aProducts[aItems[k] + 1]].Name,
                                          heap[aProducts[aItems[k + 1] + 1]].Name)
                     IN IF bOdd THEN c >= 0 ELSE c <= 0

\* the third press has sorted two products, "a" before "ab" in the array,
\* with "ab" on top
C21_Witness ==
    /\ iSortPresses = 3
    /\ Len(aProducts) = 2
    /\ heap[aProducts[1]].Name = <<"a">>
    /\ heap[aProducts[2]].Name = <<"a", "b">>
    /\ ListItems(St, aSorters, 2) = <<1, 0>>
    /\ aToasts = <<"Sorted Z to A">>

\* C22: when the confirmation of a Delete is accepted and no record of the
\* array has the ProductID the dialog was opened for, the array stays as it
\* is, no 'Product deleted successfully' toast is shown and no navigation
\* is asked for
C22_DeleteSuccessOnlyWhenRemoved ==
    \A d \in 1..Len(aDialogs) :
        (aDialogs[d] # <<>> /\ ~HasRecord(aDialogs[d]))
            => LET r == OnClose(St, d, "OK") IN
               /\ RecsOf(r) = Recs
               /\ r.aToasts = <<>>
               /\ r.aNavCalls = <<>>

\* C23: navigateTo navigates only through the settling of its promise, and
\* only when the route is one of the manifest and each guard called for it
\* gave exactly true: then the promise resolves, router.navTo is called
\* once with the route and the history gains that one entry.  For a route
\* the manifest does not have, and when a guard gave another value,
\* rejected or threw, the promise is rejected, the router is not called and
\* the history stays as it is
C23_NavigateToGuarded ==
    /\ \A sRouteName \in NavRoutes, bReplace \in BOOLEAN :
           LET r == NavigateTo(Nav, sRouteName, <<>>, bReplace) IN
           /\ r.aRouterCalls = <<>>
           /\ r.aNavigationHistory = aNavigationHistory
           /\ IF sRouteName \in ManifestRoutes
              THEN /\ r.aNavSettled = <<>>
                   /\ Len(r.aNavigations) = Len(aNavigations) + 1
              ELSE /\ Len(r.aNavSettled) = 1
                   /\ r.aNavSettled[1].state = "rejected"
                   /\ r.aNavigations = aNavigations
    /\ \A i \in 1..Len(aNavigations) :
           LET o == aNavigations[i]
               r == SettleNavigation(Nav, i)
           IN /\ o.route \in ManifestRoutes
              /\ Len(r.aNavSettled) = 1
              /\ r.aNavSettled[1].route = o.route
              /\ IF \A k \in 1..Len(o.results) : o.results[k] = "true"
                 THEN /\ r.aNavSettled[1].state = "resolved"
                      /\ r.aRouterCalls
                            = <<RouterCall(o.route, o.parameters, o.replace)>>
                      /\ r.aNavigationHistory # <<>>
                      /\ r.aNavigationHistory[Len(r.aNavigationHistory)]
                            = HistoryEntry(o.route, o.parameters)
                      /\ \/ SubSeq(r.aNavigationHistory, 1,
                                   Len(r.aNavigationHistory) - 1)
                               = aNavigationHistory
                         \/ /\ Len(aNavigationHistory) = iMaxHistorySize
                            /\ SubSeq(r.aNavigationHistory, 1,
                                      Len(r.aNavigationHistory) - 1)
                                  = Tail(aNavigationHistory)
                 ELSE /\ r.aNavSettled[1].state = "rejected"
                      /\ r.aRouterCalls = <<>>
                      /\ r.aNavigationHistory = aNavigationHistory

\* a navigation to the productDetail route has been rejected after one of
\* the two guards of the route gave true and the other another value, with
\* visited routes in the history
C23_Witness ==
    /\ aNavSettled = <<Settlement("productDetail", "rejected",
                                  "Navigation blocked by guard")>>
    /\ "productDetail" \in DOMAIN mNavigationGuards
    /\ mNavigationGuards["productDetail"] = <<"true", "truthy">>
    /\ aNavigationHistory # <<>>

\* the history and the guards left by a call, without what the call did
SettledNav(n) ==
    [n EXCEPT !.aNavSettled = <<>>, !.aRouterCalls = <<>>,
              !.aHistoryGo = <<>>]

\* C24: with n >= 3 routes visited, no guards and no promise unsettled, a
\* navigateBack() navigates to the route visited before the last, and a
\* second navigateBack() to the route visited before that one
C24_NavigateBackStepsBack ==
    LET n == Len(aNavigationHistory) IN
    (n >= 3 /\ aNavigations = <<>> /\ DOMAIN mNavigationGuards = {})
        => LET a == SettleNavigation(NavigateBack(Nav, 0), 1)
               b == SettleNavigation(NavigateBack(SettledNav(a), 0), 1)
           IN /\ Len(a.aRouterCalls) = 1
              /\ a.aRouterCalls[1].route = aNavigationHistory[n - 1].route
              /\ Len(b.aRouterCalls) = 1
              /\ b.aRouterCalls[1].route = aNavigationHistory[n - 2].route

\* the promises of loads of a module that are in flight
InFlight(l, sModuleName) ==
    {p \in 1..Len(l.aLoadPromises) :
        /\ l.aLoadPromises[p].module = sModuleName
        /\ l.aLoadPromises[p].state = "pending"}

\* C25: no module has two loads in flight; loadModule returns the pending
\* promise of the load in flight without starting a load, returns a
\* promise resolved with the cached module without starting a load when a
\* load of the module has succeeded, and starts a load otherwise; after
\* the failure of a load the module has no pending entry and the next
\* loadModule for it starts a new load
C25_OneLoadPerModule ==
    \A sModuleName \in ModuleNames :
        LET r == LoadModule(Ld, sModuleName) IN
        /\ Cardinality(InFlight(Ld, sModuleName)) <= 1
        /\ Cardinality(InFlight(r, sModuleName)) <= 1
        /\ InFlight(Ld, sModuleName) # {} =>
               /\ r.aLoadPromises = aLoadPromises
               /\ r.oLoadReturned.promise \in InFlight(Ld, sModuleName)
        /\ (/\ InFlight(Ld, sModuleName) = {}
            /\ \E p \in 1..Len(aLoadPromises) :
                   /\ aLoadPromises[p].module = sModuleName
                   /\ aLoadPromises[p].state = "resolved") =>
               /\ r.aLoadPromises = aLoadPromises
               /\ r.oLoadReturned.promise = 0
               /\ r.oLoadReturned.state = "resolved"
               /\ r.oLoadReturned.value = ModuleOf(sModuleName)
        /\ \A p \in InFlight(Ld, sModuleName) :
               LET f == RequireFailed(Ld, p)
                   q == LoadModule(f, sModuleName)
               IN /\ sModuleName \notin DOMAIN f.mLoadingPromises
                  /\ sModuleName \notin DOMAIN f.mLoadedModules =>
                         /\ Len(q.aLoadPromises) = Len(aLoadPromises) + 1
                         /\ q.oLoadReturned.promise = Len(q.aLoadPromises)
                         /\ InFlight(q, sModuleName)
                               = {Len(q.aLoadPromises)}

\* after a failed load of the formatter module a second load of it is in
\* flight, and the last call has returned the pending promise of that load
C25_Witness ==
    /\ Len(aLoadPromises) >= 2
    /\ aLoadPromises[1].module = "com/productapp/model/formatter"
    /\ aLoadPromises[1].state = "rejected"
    /\ aLoadPromises[2].module = "com/productapp/model/formatter"
    /\ aLoadPromises[2].state = "pending"
    /\ oLoadReturned = Returned(2)

\* C26: no fragment name has two live instances, that is two that have
\* been created by a load and not destroyed
C26_OneLiveFragmentPerName ==
    \A x, y \in 1..Len(aFragments) :
        (/\ aFragments[x].name = aFragments[y].name
         /\ ~aFragments[x].destroyed
         /\ ~aFragments[y].destroyed) => x = y

\* C27: a promise of showConfirmationDialog that is not yet resolved is
\* the one whose resolve function the manager holds, so that the answer to
\* its dialog can resolve it; handleConfirmationResult resolves that
\* promise with the boolean it is called with and changes no other promise
C27_ConfirmationResolvedOnce ==
    /\ \A p \in 1..Len(aConfirmPromises) :
           aConfirmPromises[p].state = "pending" => fnConfirmResolve = p
    /\ \A bConfirmed \in BOOLEAN :
           LET r == HandleConfirmationResult(Fm, bConfirmed) IN
           \A p \in 1..Len(aConfirmPromises) :
               IF p = fnConfirmResolve
               THEN r.aConfirmPromises[p]
                        = [state |-> "resolved", value |-> bConfirmed]
               ELSE r.aConfirmPromises[p] = aConfirmPromises[p]

====
